---- MODULE Spec2Model ----
(***************************************************************************)
(* The query analysis pipeline of club-sql-engagement-analysis:            *)
(*   query_table_capture.py    table references, completeness, environment *)
(*   query_categorization.py   complexity score, category, explanation     *)
(*   query_usage_quicklook.py  club summary and table summary              *)
(* Every value of a CSV file is text.  A text is a sequence of             *)
(* one-character strings, so that the regular expressions, split, replace, *)
(* strip, str() and float() of the code act on characters.                 *)
(***************************************************************************)
EXTENDS Integers, Sequences, FiniteSets, TLC

VARIABLES
    pc,               \* pipeline: the stage that runs next
    raw,              \* pipeline: rows of the raw input file
    table_info_list,  \* process_file: extract_tables' result for the last row read
    captured,         \* rows of query_table_captured.csv
    categorized,      \* rows of categorized_queries.csv
    parts,            \* scorer: the pieces the query text is assembled from
    query,            \* scorer: the query text
    score,            \* scorer: score_query(query)
    explanation,      \* scorer: explain_score(query)
    arg_list,         \* classifier: the reference list passed in
    arg_completeness, \* classifier: the completeness flag passed in
    ret_env,          \* classifier: the value returned, <<>> before the call
    rows_read,        \* aggregator: rows of the input file read so far
    club_data,        \* aggregator: analyze_usage's club_data
    table_data,       \* aggregator: analyze_usage's table_data
    club_summary,     \* rows of usage_analysis_club_summary.csv
    table_summary,    \* rows of usage_analysis_table_summary.csv
    agg_pc,           \* aggregator: "read", "club", "table" or "done"
    run_pc,           \* runner: the stage main() runs next, "done" or "failed"
    stage,            \* the stage script that is running, "none" between two
    stage_pc,         \* the running stage script's position
    files,            \* the state of each file of raw_data and curated_output
    returncode,       \* the exit status of each stage script that has terminated
    printed,          \* runner: the commands run() has announced
    report            \* what the running stage script printed about a failure

pipeVars == <<pc, raw, table_info_list, captured, categorized>>
scoreVars == <<parts, query, score, explanation>>
envVars == <<arg_list, arg_completeness, ret_env>>
aggVars == <<rows_read, club_data, table_data, club_summary, table_summary, agg_pc>>
runVars == <<run_pc, stage, stage_pc, files, returncode, printed, report>>
vars == <<pipeVars, scoreVars, envVars, aggVars, runVars>>

(***************************************************************************)
(* Bounds of the model.                                                    *)
(***************************************************************************)
MaxFrags == 2    \* pieces of an assembled pipeline query
MaxWide == 8     \* table references a many-table query is drawn from
MaxParts == 2    \* pieces of a scorer query
MaxRefs == 5     \* references in a classifier argument
MaxRows == 3     \* rows the aggregator reads (table usage)
MaxScoreRows == 3 \* rows the aggregator reads (club scores)
MaxEnvRows == 3   \* rows the aggregator reads (environments)

(***************************************************************************)
(* Text.                                                                   *)
(***************************************************************************)
Min(a, b) == IF a < b THEN a ELSE b
Max(a, b) == IF a > b THEN a ELSE b

\* str.lower() on the ASCII letters: the case folding of re.IGNORECASE.
LowerOf ==
    [A |-> "a", B |-> "b", C |-> "c", D |-> "d", E |-> "e", F |-> "f", G |-> "g",
     H |-> "h", I |-> "i", J |-> "j", K |-> "k", L |-> "l", M |-> "m", N |-> "n",
     O |-> "o", P |-> "p", Q |-> "q", R |-> "r", S |-> "s", T |-> "t", U |-> "u",
     V |-> "v", W |-> "w", X |-> "x", Y |-> "y", Z |-> "z"]

ToLower(c) == IF c \in DOMAIN LowerOf THEN LowerOf[c] ELSE c

Lower(t) == [i \in 1..Len(t) |-> ToLower(t[i])]

Letters == {LowerOf[c] : c \in DOMAIN LowerOf}

DigitChars == <<"0", "1", "2", "3", "4", "5", "6", "7", "8", "9">>

Digits == {DigitChars[i] : i \in 1..Len(DigitChars)}

Whitespace == {" ", "\t", "\n", "\r"}

DigitValue(c) == (CHOOSE i \in 1..Len(DigitChars) : DigitChars[i] = c) - 1

\* str(n) of a non-negative int.
RECURSIVE IntToText(_)
IntToText(n) ==
    IF n < 10 THEN <<DigitChars[n + 1]>>
    ELSE IntToText(n \div 10) \o <<DigitChars[(n % 10) + 1]>>

\* int(ds) of a text of decimal digits.
RECURSIVE ParseInt(_)
ParseInt(ds) ==
    IF ds = <<>> THEN 0
    ELSE 10 * ParseInt(SubSeq(ds, 1, Len(ds) - 1)) + DigitValue(ds[Len(ds)])

RECURSIVE Flatten(_)
Flatten(ps) == IF ps = <<>> THEN <<>> ELSE Head(ps) \o Flatten(Tail(ps))

StartsWith(t, p) == Len(p) <= Len(t) /\ SubSeq(t, 1, Len(p)) = p

\* t.split(sep) for a one-character separator.
RECURSIVE SplitFrom(_, _, _, _)
SplitFrom(t, sep, i, cur) ==
    IF i > Len(t) THEN <<cur>>
    ELSE IF t[i] = sep THEN <<cur>> \o SplitFrom(t, sep, i + 1, <<>>)
         ELSE SplitFrom(t, sep, i + 1, Append(cur, t[i]))

Split(t, sep) == SplitFrom(t, sep, 1, <<>>)

\* sep.join(ts)
RECURSIVE Join(_, _)
Join(sep, ts) ==
    IF ts = <<>> THEN <<>>
    ELSE IF Len(ts) = 1 THEN ts[1]
         ELSE ts[1] \o sep \o Join(sep, Tail(ts))

\* t.replace(old, new): the occurrences of old, left to right, not overlapping.
RECURSIVE ReplaceFrom(_, _, _, _)
ReplaceFrom(t, old, new, i) ==
    IF i > Len(t) THEN <<>>
    ELSE IF i + Len(old) - 1 <= Len(t) /\ SubSeq(t, i, i + Len(old) - 1) = old
         THEN new \o ReplaceFrom(t, old, new, i + Len(old))
         ELSE <<t[i]>> \o ReplaceFrom(t, old, new, i + 1)

Replace(t, old, new) == ReplaceFrom(t, old, new, 1)

\* t.strip()
RECURSIVE Strip(_)
Strip(t) ==
    IF t = <<>> THEN t
    ELSE IF t[1] \in Whitespace THEN Strip(Tail(t))
         ELSE IF t[Len(t)] \in Whitespace THEN Strip(SubSeq(t, 1, Len(t) - 1))
              ELSE t

(***************************************************************************)
(* Regular expressions, as the calls of re use them.  A pattern is a       *)
(* sequence of alternatives, tried in order; an alternative is a sequence  *)
(* of literals and of greedy repetitions of a character class, matched     *)
(* with backtracking.  A match is reported by the position after its last  *)
(* character, 0 when there is none.                                        *)
(***************************************************************************)
Lit(t) == [kind |-> "lit", chars |-> t]
Plus(cls) == [kind |-> "rep", cls |-> cls, min |-> 1]
Star(cls) == [kind |-> "rep", cls |-> cls, min |-> 0]

InClass(c, cls) ==
    CASE cls = "\\s" -> c \in Whitespace
      [] cls = "[^.\\s]" -> ~(c = "." \/ c \in Whitespace)
      [] cls = "[a-zA-Z_]" -> c \in Letters \cup {"_"}
      [] cls = "[a-zA-Z_0-9]" -> c \in Letters \cup Digits \cup {"_"}

LitAt(chars, t, i) ==
    /\ i + Len(chars) - 1 <= Len(t)
    /\ \A j \in 1..Len(chars) : t[i + j - 1] = chars[j]

RECURSIVE RunLen(_, _, _)
RunLen(cls, t, i) ==
    IF i <= Len(t) /\ InClass(t[i], cls) THEN 1 + RunLen(cls, t, i + 1) ELSE 0

RECURSIVE MatchSeq(_, _, _, _)
RECURSIVE Backtrack(_, _, _, _, _)
MatchSeq(alt, k, t, i) ==
    IF k > Len(alt) THEN i
    ELSE IF alt[k].kind = "lit"
         THEN IF LitAt(alt[k].chars, t, i)
              THEN MatchSeq(alt, k + 1, t, i + Len(alt[k].chars))
              ELSE 0
         ELSE Backtrack(alt, k, t, i, RunLen(alt[k].cls, t, i))

\* A greedy repetition: the longest run first, then one character less.
Backtrack(alt, k, t, i, n) ==
    IF n < alt[k].min THEN 0
    ELSE LET r == MatchSeq(alt, k + 1, t, i + n)
         IN  IF r # 0 THEN r ELSE Backtrack(alt, k, t, i, n - 1)

RECURSIVE MatchAlts(_, _, _, _)
MatchAlts(re, a, t, i) ==
    IF a > Len(re) THEN 0
    ELSE LET r == MatchSeq(re[a], 1, t, i)
         IN  IF r # 0 THEN r ELSE MatchAlts(re, a + 1, t, i)

\* re.IGNORECASE: the literals of the pattern and the text are case-folded.
FoldCase(re) ==
    [a \in 1..Len(re) |->
        [k \in 1..Len(re[a]) |->
            IF re[a][k].kind = "lit" THEN Lit(Lower(re[a][k].chars)) ELSE re[a][k]]]

\* re.search(re, t, re.IGNORECASE) is not None
re_search(re, t) ==
    LET p == FoldCase(re)
        lt == Lower(t)
    IN  \E i \in 1..Len(t) : MatchAlts(p, 1, lt, i) # 0

RECURSIVE FindFrom(_, _, _)
FindFrom(re, t, i) ==
    IF i > Len(t) THEN <<>>
    ELSE LET e == MatchAlts(re, 1, t, i)
         IN  IF e = 0 THEN FindFrom(re, t, i + 1)
             ELSE <<<<i, e - 1>>>> \o FindFrom(re, t, e)

\* re.findall(re, t, re.IGNORECASE): the matches, leftmost first, not overlapping.
re_findall(re, t) ==
    LET spans == FindFrom(FoldCase(re), Lower(t), 1)
    IN  [n \in 1..Len(spans) |-> SubSeq(t, spans[n][1], spans[n][2])]

(***************************************************************************)
(* query_table_capture.py                                                  *)
(***************************************************************************)
LEGACY == <<"l","e","g","a","c","y">>
GRIDIRON == <<"g","r","i","d","i","r","o","n">>
MIXED == <<"m","i","x","e","d">>
UNKNOWN == <<"u","n","k","n","o","w","n">>
NA == <<"N","/","A">>

\* r'AwsDataCatalog\.[^.\s]+\.[^.\s]+_vw'
legacy_pattern ==
    << <<Lit(<<"A","w","s","D","a","t","a","C","a","t","a","l","o","g">>), Lit(<<".">>), Plus("[^.\\s]"), Lit(<<".">>),
         Plus("[^.\\s]"), Lit(<<"_","v","w">>)>> >>

\* r'[a-zA-Z_]+_ptc\.[a-zA-Z_0-9]+'
gridiron_pattern ==
    << <<Plus("[a-zA-Z_]"), Lit(<<"_","p","t","c">>), Lit(<<".">>), Plus("[a-zA-Z_0-9]")>> >>

Tagged(env_type, tables) == [n \in 1..Len(tables) |-> <<env_type, tables[n]>>]

\* The loop over all_tables: an entry is kept when its table was not seen before.
RECURSIVE unique_from(_, _, _, _)
unique_from(all_tables, n, seen, unique_tables) ==
    IF n > Len(all_tables) THEN unique_tables
    ELSE IF all_tables[n][2] \notin seen
         THEN unique_from(all_tables, n + 1, seen \cup {all_tables[n][2]},
                          Append(unique_tables, all_tables[n]))
         ELSE unique_from(all_tables, n + 1, seen, unique_tables)

\* Mutation of remove_duplicates: seen is never added to.
remove_duplicates_seen_never_set(all_tables) == unique_from(all_tables, Len(all_tables) + 1, {}, all_tables)

remove_duplicates(all_tables) == unique_from(all_tables, 1, {}, <<>>)

extract_tables(q) ==
    LET legacy_tables == re_findall(legacy_pattern, q)
        gridiron_tables == re_findall(gridiron_pattern, q)
        all_tables == Tagged(LEGACY, legacy_tables) \o Tagged(GRIDIRON, gridiron_tables)
    IN  remove_duplicates(all_tables)

\* Mutation of is_query_complete: the list is tested against None, not for emptiness.
is_query_complete_not_none(til) == IF til # <<"None">> THEN 1 ELSE 0

is_query_complete(til) == IF til # <<>> THEN 1 ELSE 0

get_simplified_table_name(table, environment) ==
    LET last == Split(table, ".")[Len(Split(table, "."))]
    IN  IF environment = LEGACY
        THEN LET table_name == Replace(last, <<"_","v","w">>, <<>>)
                 ps == Split(table_name, "_")
             IN  IF Len(ps) > 1 THEN Join(<<"_">>, SubSeq(ps, 1, Len(ps) - 1))
                 ELSE table_name
        ELSE IF StartsWith(last, <<"p","t","c","_">>) THEN SubSeq(last, 5, Len(last)) ELSE last

env_count(til, env_type) == Cardinality({n \in 1..Len(til) : til[n][1] = env_type})

\* Mutation of determine_primary_environment: >= in the first comparison.
determine_primary_environment_tie_legacy(til, completeness) ==
    IF completeness = 0 THEN NA
    ELSE IF til = <<>> THEN UNKNOWN
    ELSE IF env_count(til, LEGACY) >= env_count(til, GRIDIRON) THEN LEGACY
    ELSE GRIDIRON

determine_primary_environment(til, completeness) ==
    IF completeness = 0 THEN NA
    ELSE IF til = <<>> THEN UNKNOWN
    ELSE IF env_count(til, LEGACY) > env_count(til, GRIDIRON) THEN LEGACY
    ELSE IF env_count(til, GRIDIRON) > env_count(til, LEGACY) THEN GRIDIRON
    ELSE IF env_count(til, LEGACY) > 0 /\ env_count(til, GRIDIRON) > 0 THEN MIXED
    ELSE LEGACY

\* simplified_tables[k] if len(simplified_tables) > k else ''   (k from 0)
table_slot(simplified_tables, k) ==
    IF Len(simplified_tables) > k THEN simplified_tables[k + 1] ELSE <<>>

\* The row process_file writes for one input row, as the CSV file holds it.
capture_row(row) ==
    LET q == row.Query
        til == extract_tables(q)
        completeness == is_query_complete(til)
        simplified_tables ==
            [n \in 1..Len(til) |-> get_simplified_table_name(til[n][2], til[n][1])]
    IN  [timestamp_et |-> row["Timestamp (ET)"],
         user |-> row.User,
         club |-> row.Club,
         query |-> q,
         table_used |-> Join(<<",">>, simplified_tables),
         completeness |-> IntToText(completeness),
         first_table_used |-> table_slot(simplified_tables, 0),
         second_table_used |-> table_slot(simplified_tables, 1),
         third_table_used |-> table_slot(simplified_tables, 2),
         fourth_table_used |-> table_slot(simplified_tables, 3),
         fifth_table_used |-> table_slot(simplified_tables, 4),
         sixth_table_used |-> table_slot(simplified_tables, 5),
         table_used_num |-> IntToText(Len(simplified_tables)),
         data_environment |-> determine_primary_environment(til, completeness)]

(***************************************************************************)
(* query_categorization.py                                                 *)
(***************************************************************************)
\* Mutation of aggregation_score: two points for every aggregate call.
aggregation_score_flat(aggregations) == aggregations * 2

\* Mutation of aggregation_score: the calls beyond the first are subtracted.
aggregation_score_minus(aggregations) ==
    Min(aggregations, 1) * 2 - Max(aggregations - 1, 0)

aggregation_score(aggregations) == Min(aggregations, 1) * 2 + Max(aggregations - 1, 0)

score_query(q) ==
    LET joins == Len(re_findall(<< <<Lit(<<"J","O","I","N">>)>> >>, q))
        aggregations ==
            Len(re_findall(<< <<Lit(<<"C","O","U","N","T">>), Star("\\s"), Lit(<<"(">>)>>,
                              <<Lit(<<"S","U","M">>), Star("\\s"), Lit(<<"(">>)>>,
                              <<Lit(<<"A","V","G">>), Star("\\s"), Lit(<<"(">>)>>,
                              <<Lit(<<"M","A","X">>), Star("\\s"), Lit(<<"(">>)>>,
                              <<Lit(<<"M","I","N">>), Star("\\s"), Lit(<<"(">>)>> >>, q))
        subqueries == Len(re_findall(<< <<Lit(<<"(","S","E","L","E","C","T">>)>> >>, q))
    IN  (IF ~re_search(<< <<Lit(<<"S","E","L","E","C","T"," ","*">>)>> >>, q) THEN 1 ELSE 0)
      + (IF re_search(<< <<Lit(<<"L","I","M","I","T">>)>> >>, q) THEN 1 ELSE 0)
      + (IF re_search(<< <<Lit(<<"W","H","E","R","E">>)>> >>, q) THEN 2 ELSE 0)
      + (IF re_search(<< <<Lit(<<"H","A","V","I","N","G">>)>> >>, q) THEN 2 ELSE 0)
      + (IF re_search(<< <<Lit(<<"O","R","D","E","R"," ","B","Y">>)>> >>, q) THEN 1 ELSE 0)
      + joins * 3
      + (IF re_search(<< <<Lit(<<"G","R","O","U","P"," ","B","Y">>)>> >>, q) THEN 2 ELSE 0)
      + aggregation_score(aggregations)
      + subqueries * 3
      + (IF re_search(<< <<Lit(<<"W","I","T","H">>)>> >>, q) THEN 5 ELSE 0)
      + (IF re_search(<< <<Lit(<<"U","N","I","O","N">>)>>, <<Lit(<<"I","N","T","E","R","S","E","C","T">>)>>,
                         <<Lit(<<"E","X","C","E","P","T">>)>> >>, q) THEN 5 ELSE 0)
      + (IF re_search(<< <<Lit(<<"O","V","E","R">>), Star("\\s"), Lit(<<"(">>)>> >>, q) THEN 6 ELSE 0)
      + (IF re_search(<< <<Lit(<<"P","I","V","O","T">>)>>, <<Lit(<<"U","N","P","I","V","O","T">>)>> >>, q) THEN 6 ELSE 0)

\* Mutation of categorize_query: < in place of <=.
categorize_query_exclusive(s) ==
    IF s < 2 THEN <<"B","a","s","i","c"," ","E","x","p","l","o","r","a","t","o","r","y">>
    ELSE IF s < 6 THEN <<"F","o","c","u","s","e","d"," ","E","x","p","l","o","r","a","t","o","r","y">>
    ELSE IF s < 13 THEN <<"A","n","a","l","y","t","i","c","a","l">>
    ELSE <<"C","o","m","p","l","e","x"," ","A","n","a","l","y","t","i","c","a","l">>

categorize_query(s) ==
    IF s <= 2 THEN <<"B","a","s","i","c"," ","E","x","p","l","o","r","a","t","o","r","y">>
    ELSE IF s <= 6 THEN <<"F","o","c","u","s","e","d"," ","E","x","p","l","o","r","a","t","o","r","y">>
    ELSE IF s <= 13 THEN <<"A","n","a","l","y","t","i","c","a","l">>
    ELSE <<"C","o","m","p","l","e","x"," ","A","n","a","l","y","t","i","c","a","l">>

aggregation_explained(aggregations) ==
    Min(aggregations, 1) * 2 + Max(aggregations - 1, 0)

\* f"{label} ({n})"
explained(label, n) == label \o <<" ","(">> \o IntToText(n) \o <<")">>

explain_score(q) ==
    LET joins == Len(re_findall(<< <<Lit(<<"J","O","I","N">>)>> >>, q))
        aggregations ==
            Len(re_findall(<< <<Lit(<<"C","O","U","N","T">>), Star("\\s"), Lit(<<"(">>)>>,
                              <<Lit(<<"S","U","M">>), Star("\\s"), Lit(<<"(">>)>>,
                              <<Lit(<<"A","V","G">>), Star("\\s"), Lit(<<"(">>)>>,
                              <<Lit(<<"M","A","X">>), Star("\\s"), Lit(<<"(">>)>>,
                              <<Lit(<<"M","I","N">>), Star("\\s"), Lit(<<"(">>)>> >>, q))
        subqueries == Len(re_findall(<< <<Lit(<<"(","S","E","L","E","C","T">>)>> >>, q))
        explanations ==
            (IF ~re_search(<< <<Lit(<<"S","E","L","E","C","T"," ","*">>)>> >>, q)
             THEN <<<<"S","E","L","E","C","T"," ","w","i","t","h"," ","s","p","e","c","i","f","i","c"," ","c","o","l","u","m","n","s"," ","(","1",")">>>> ELSE <<>>)
         \o (IF re_search(<< <<Lit(<<"L","I","M","I","T">>)>> >>, q)
             THEN <<<<"L","I","M","I","T"," ","c","l","a","u","s","e"," ","(","1",")">>>> ELSE <<>>)
         \o (IF re_search(<< <<Lit(<<"W","H","E","R","E">>)>> >>, q)
             THEN <<<<"W","H","E","R","E"," ","c","l","a","u","s","e"," ","(","2",")">>>> ELSE <<>>)
         \o (IF re_search(<< <<Lit(<<"H","A","V","I","N","G">>)>> >>, q)
             THEN <<<<"H","A","V","I","N","G"," ","c","l","a","u","s","e"," ","(","2",")">>>> ELSE <<>>)
         \o (IF re_search(<< <<Lit(<<"O","R","D","E","R"," ","B","Y">>)>> >>, q)
             THEN <<<<"O","R","D","E","R"," ","B","Y"," ","(","1",")">>>> ELSE <<>>)
         \o (IF joins > 0 THEN <<explained(<<"J","O","I","n","s">>, joins * 3)>> ELSE <<>>)
         \o (IF re_search(<< <<Lit(<<"G","R","O","U","P"," ","B","Y">>)>> >>, q)
             THEN <<<<"G","R","O","U","P"," ","B","Y"," ","(","2",")">>>> ELSE <<>>)
         \o (IF aggregations > 0
             THEN <<explained(<<"A","g","g","r","e","g","a","t","i","o","n","s">>, aggregation_explained(aggregations))>>
             ELSE <<>>)
         \o (IF subqueries > 0 THEN <<explained(<<"S","u","b","q","u","e","r","i","e","s">>, subqueries * 3)>>
             ELSE <<>>)
         \o (IF re_search(<< <<Lit(<<"W","I","T","H">>)>> >>, q)
             THEN <<<<"C","o","m","m","o","n"," ","T","a","b","l","e"," ","E","x","p","r","e","s","s","i","o","n","s"," ","(","5",")">>>> ELSE <<>>)
         \o (IF re_search(<< <<Lit(<<"U","N","I","O","N">>)>>, <<Lit(<<"I","N","T","E","R","S","E","C","T">>)>>,
                             <<Lit(<<"E","X","C","E","P","T">>)>> >>, q)
             THEN <<<<"S","e","t"," ","o","p","e","r","a","t","i","o","n","s"," ","(","5",")">>>> ELSE <<>>)
         \o (IF re_search(<< <<Lit(<<"O","V","E","R">>), Star("\\s"), Lit(<<"(">>)>> >>, q)
             THEN <<<<"W","i","n","d","o","w"," ","f","u","n","c","t","i","o","n","s"," ","(","6",")">>>> ELSE <<>>)
         \o (IF re_search(<< <<Lit(<<"P","I","V","O","T">>)>>, <<Lit(<<"U","N","P","I","V","O","T">>)>> >>, q)
             THEN <<<<"P","I","V","O","T","/","U","N","P","I","V","O","T"," ","(","6",")">>>> ELSE <<>>)
    IN  Join(<<","," ">>, explanations)

\* The row process_queries writes for one row of the captured file.
categorize_row(row) ==
    IF row.completeness = <<"1">>
    THEN row @@ [score |-> IntToText(score_query(row.query)),
                 category |-> categorize_query(score_query(row.query)),
                 explanation |-> explain_score(row.query)]
    ELSE row @@ [score |-> NA,
                 category |-> <<"I","n","v","a","l","i","d","/","I","n","c","o","m","p","l","e","t","e">>,
                 explanation |-> <<"Q","u","e","r","y"," ","m","a","r","k","e","d"," ","a","s"," ","i","n","c","o","m","p","l","e","t","e">>]

(***************************************************************************)
(* The capture and categorization stages on a raw file of one row.  Rows   *)
(* are processed independently of each other, so one row per file loses    *)
(* nothing.  The queries are assembled from the pieces of PipeVocab, or    *)
(* list a selection of the references WideRef(1..MaxWide), or are the      *)
(* query of the end-to-end scenario.                                       *)
(***************************************************************************)
ScenarioQuery == <<"S","E","L","E","C","T"," ","*"," ","F","R","O","M"," ","f","u","l","f","i","l","l","m","e","n","t","_","p","t","c",".","p","t","c","_","t","i","c","k","e","t","i","n","g","_","s","a","l","e","s"," ","W","H","E","R","E"," ","c","l","u","b","_","i","d"," ","="," ","5">>

PipeVocab ==
    { <<"S","E","L","E","C","T"," ","*"," ","F","R","O","M">>,
      <<" ","f","u","l","f","i","l","l","m","e","n","t","_","p","t","c",".","p","t","c","_","t","i","c","k","e","t","i","n","g","_","s","a","l","e","s">>,
      <<" ","W","H","E","R","E"," ","c","l","u","b","_","i","d"," ","="," ","5">>,
      <<" ","A","w","s","D","a","t","a","C","a","t","a","l","o","g",".","s",".","s","a","l","e","s","_","n","y","g","_","v","w">>,
      <<" ","a","w","s","d","a","t","a","c","a","t","a","l","o","g",".","s",".","s","a","l","e","s","_","n","y","g","_","V","W">>,
      <<" ","A","w","s","D","a","t","a","C","a","t","a","l","o","g",".","a","_","p","t","c",".","x","_","v","w">>,
      <<" ","x","_","p","t","c",".","p","t","c","_">>,
      <<"_","v","w">>,
      <<" ","d","u","a","l">> }

AssembledQueries ==
    {Flatten(ps) : ps \in UNION {[1..n -> PipeVocab] : n \in 0..MaxFrags}}

WideRef(i) ==
    IF i = 1 THEN <<" ","x","_","p","t","c",".","p","t","c","_">>
    ELSE IF i = 2 THEN <<" ","A","w","s","D","a","t","a","C","a","t","a","l","o","g",".","s",".","_","a","_","v","w">>
    ELSE <<" ","g","_","p","t","c",".","t">> \o IntToText(i)

RECURSIVE WideFrom(_, _)
WideFrom(i, S) ==
    IF i > MaxWide THEN <<>>
    ELSE (IF i \in S THEN WideRef(i) ELSE <<>>) \o WideFrom(i + 1, S)

WideQueries == {<<"S","E","L","E","C","T"," ","*"," ","F","R","O","M">> \o WideFrom(1, S) : S \in SUBSET (1..MaxWide)}

InputQueries == AssembledQueries \cup WideQueries \cup {ScenarioQuery}

RawRow(q) ==
    [Query |-> q, Club |-> <<"A","B","C">>, User |-> <<"u","1">>]
        @@ ("Timestamp (ET)" :> <<"2","0","2","5","-","0","1","-","0","1"," ","0","9",":","0","0">>)

PipeInit ==
    /\ pc = "capture"
    /\ raw \in {<<RawRow(q)>> : q \in InputQueries}
    /\ table_info_list = <<>>
    /\ captured = <<>>
    /\ categorized = <<>>

PipeIdle ==
    /\ pc = "idle"
    /\ raw = <<>>
    /\ table_info_list = <<>>
    /\ captured = <<>>
    /\ categorized = <<>>

\* One iteration of process_file's loop over the raw rows.
ProcessFileRow ==
    /\ pc = "capture"
    /\ Len(captured) < Len(raw)
    /\ LET row == raw[Len(captured) + 1]
       IN  /\ table_info_list' = extract_tables(row.Query)
           /\ captured' = Append(captured, capture_row(row))
    /\ pc' = IF Len(captured) + 1 = Len(raw) THEN "categorize" ELSE "capture"
    /\ UNCHANGED <<raw, categorized, scoreVars, envVars, aggVars, runVars>>

\* One iteration of process_queries' loop over the captured rows.
ProcessQueriesRow ==
    /\ pc = "categorize"
    /\ Len(categorized) < Len(captured)
    /\ categorized' = Append(categorized, categorize_row(captured[Len(categorized) + 1]))
    /\ pc' = IF Len(categorized) + 1 = Len(captured) THEN "done" ELSE "categorize"
    /\ UNCHANGED <<raw, table_info_list, captured, scoreVars, envVars, aggVars, runVars>>

(***************************************************************************)
(* score_query and explain_score as functions of the query text.  The text *)
(* is assembled from the pieces of ScoreVocab: a step inserts one more     *)
(* piece at a boundary between pieces and scores the new text.             *)
(***************************************************************************)
\* One occurrence of each construct the scorer rewards, in weight-table order.
QualifyingConstructs ==
    << <<" ","L","I","M","I","T"," ","5">>, <<" ","W","H","E","R","E"," ","x">>, <<" ","H","A","V","I","N","G">>, <<" ","O","R","D","E","R"," ","B","Y">>, <<" ","J","O","I","N">>,
       <<" ","G","R","O","U","P"," ","B","Y">>, <<" ","S","U","M"," ","(">>, <<" ","(","S","E","L","E","C","T">>, <<" ","W","I","T","H">>, <<" ","E","X","C","E","P","T">>,
       <<" ","O","V","E","R"," ","(">>, <<" ","U","N","P","I","V","O","T">> >>

ConstructSet == {QualifyingConstructs[n] : n \in 1..Len(QualifyingConstructs)}

ScoreVocab == ConstructSet \cup { <<"S","E","L","E","C","T">>, <<" ","*">>, <<" ","a"," ","F","R","O","M"," ","t">> }

InsertAt(ps, f, i) == SubSeq(ps, 1, i) \o <<f>> \o SubSeq(ps, i + 1, Len(ps))

ScoreInit ==
    /\ parts = <<>>
    /\ query = <<>>
    /\ score = score_query(<<>>)
    /\ explanation = explain_score(<<>>)

InsertFragment(f, i) ==
    /\ Len(parts) < MaxParts
    /\ parts' = InsertAt(parts, f, i)
    /\ query' = Flatten(parts')
    /\ score' = score_query(query')
    /\ explanation' = explain_score(query')
    /\ UNCHANGED <<pipeVars, envVars, aggVars, runVars>>

(***************************************************************************)
(* determine_primary_environment as a function of its two arguments, which *)
(* here are any reference list of at most MaxRefs entries and any flag.    *)
(***************************************************************************)
RefLists ==
    UNION { { [n \in 1..k |-> <<f[n], <<"t">> \o IntToText(n)>>] : f \in [1..k -> {LEGACY, GRIDIRON}] }
            : k \in 0..MaxRefs }

EnvInit ==
    /\ arg_list \in RefLists
    /\ arg_completeness \in {0, 1}
    /\ ret_env = <<>>

DetermineEnvironment ==
    /\ ret_env = <<>>
    /\ ret_env' = determine_primary_environment(arg_list, arg_completeness)
    /\ UNCHANGED <<arg_list, arg_completeness, pipeVars, scoreVars, aggVars, runVars>>

(***************************************************************************)
(* query_usage_quicklook.py.  A dict is a sequence of entries in insertion *)
(* order, which is the order Python iterates it in.                        *)
(***************************************************************************)
TableColumns ==
    <<"first_table_used", "second_table_used", "third_table_used",
      "fourth_table_used", "fifth_table_used", "sixth_table_used">>

\* The index of key k in dict d, 0 when d has no such key.
KeyIndex(d, k) ==
    IF \E i \in 1..Len(d) : d[i].key = k
    THEN CHOOSE i \in 1..Len(d) : d[i].key = k
    ELSE 0

\* The value a defaultdict makes for a club on first access.
new_club(club) ==
    [key |-> club, legacy_tables |-> {}, gridiron_tables |-> {},
     legacy_table_counts |-> <<>>, gridiron_table_counts |-> <<>>, scores |-> <<>>]

\* The value a defaultdict makes for a table on first access.
new_table(table) ==
    [key |-> table, unique_clubs |-> {}, query_appearances |-> 0,
     environment |-> UNKNOWN]

\* club_data[club]: a new club enters the dict at the end.
with_club(d, club) == IF KeyIndex(d, club) = 0 THEN Append(d, new_club(club)) ELSE d

\* table_data[table]: a new table enters the dict at the end.
with_table(d, table) == IF KeyIndex(d, table) = 0 THEN Append(d, new_table(table)) ELSE d

\* counter[key] += 1: a new key enters a Counter at the end.
counter_increment(counter, key) ==
    IF KeyIndex(counter, key) = 0 THEN Append(counter, [key |-> key, n |-> 1])
    ELSE [counter EXCEPT ![KeyIndex(counter, key)].n = @ + 1]

\* The float values of the model: a whole number, or nan.
Num(n) == [nan |-> FALSE, n |-> n]

NaN == [nan |-> TRUE, n |-> 0]

\* float(s); ok is FALSE where float() raises ValueError.  float() ignores
\* blanks around the text.  Of the texts it accepts, the model has the runs of
\* decimal digits and nan in any case; it rejects every other text of the
\* inputs here.
float(s) ==
    LET t == Strip(s)
    IN  IF t # <<>> /\ \A i \in 1..Len(t) : t[i] \in Digits
        THEN [ok |-> TRUE, value |-> Num(ParseInt(t))]
        ELSE IF Lower(t) = <<"n","a","n">>
             THEN [ok |-> TRUE, value |-> NaN]
             ELSE [ok |-> FALSE, value |-> Num(0)]

\* float(score) if score != 'N/A' else 0, and 0 when float() raises.
numeric_score(s) ==
    IF s = NA THEN Num(0)
    ELSE IF float(s).ok THEN float(s).value ELSE Num(0)

\* club_data[club]['scores'].append(numeric_score), for a non-empty club.
append_score(cd, club, n) ==
    IF club # <<>>
    THEN LET d == with_club(cd, club)
         IN  [d EXCEPT ![KeyIndex(d, club)].scores = Append(@, n)]
    ELSE cd

\* Mutation of update_table: the environment is written only while it is unknown.
update_table_first_write(td, table, club, data_env) ==
    LET d == with_table(td, table)
        i == KeyIndex(d, table)
    IN  [d EXCEPT ![i].unique_clubs = @ \cup {club},
                  ![i].query_appearances = @ + 1,
                  ![i].environment =
                      IF data_env \in {LEGACY, GRIDIRON} /\ @ = UNKNOWN THEN data_env ELSE @]

\* The table-level update for one non-empty slot.
update_table(td, table, club, data_env) ==
    LET d == with_table(td, table)
        i == KeyIndex(d, table)
    IN  [d EXCEPT ![i].unique_clubs = @ \cup {club},
                  ![i].query_appearances = @ + 1,
                  ![i].environment =
                      IF data_env \in {LEGACY, GRIDIRON} THEN data_env ELSE @]

\* Mutation of update_club: every environment other than legacy is taken for
\* gridiron.
update_club_else_gridiron(cd, table, club, data_env) ==
    IF club # <<>>
    THEN LET d == with_club(cd, club)
             i == KeyIndex(d, club)
         IN  IF data_env = LEGACY
             THEN [d EXCEPT ![i].legacy_tables = @ \cup {table},
                            ![i].legacy_table_counts = counter_increment(@, table)]
             ELSE [d EXCEPT ![i].gridiron_tables = @ \cup {table},
                            ![i].gridiron_table_counts = counter_increment(@, table)]
    ELSE cd

\* The club-level update for one non-empty slot.
update_club(cd, table, club, data_env) ==
    IF club # <<>> /\ data_env \in {LEGACY, GRIDIRON}
    THEN LET d == with_club(cd, club)
             i == KeyIndex(d, club)
         IN  IF data_env = LEGACY
             THEN [d EXCEPT ![i].legacy_tables = @ \cup {table},
                            ![i].legacy_table_counts = counter_increment(@, table)]
             ELSE [d EXCEPT ![i].gridiron_tables = @ \cup {table},
                            ![i].gridiron_table_counts = counter_increment(@, table)]
    ELSE cd

\* The loop over the six table columns of a row, from column k on.
RECURSIVE process_columns(_, _, _, _, _)
process_columns(row, k, club, data_env, acc) ==
    IF k > Len(TableColumns) THEN acc
    ELSE LET table == Strip(row[TableColumns[k]])
         IN  IF table # <<>>
             THEN process_columns(row, k + 1, club, data_env,
                      [club_data |-> update_club(acc.club_data, table, club, data_env),
                       table_data |-> update_table(acc.table_data, table, club, data_env)])
             ELSE process_columns(row, k + 1, club, data_env, acc)

\* One iteration of analyze_usage's loop over the rows.
process_row(row, cd, td) ==
    LET club == Strip(row.club)
        data_env == Strip(row.data_environment)
    IN  process_columns(row, 1, club, data_env,
            [club_data |-> append_score(cd, club, numeric_score(row.score)),
             table_data |-> td])

\* Mutation of max_item: >= in the comparison, so the last maximum is kept.
RECURSIVE max_item_last(_, _, _)
max_item_last(items, i, best) ==
    IF i > Len(items) THEN best
    ELSE max_item_last(items, i + 1, IF items[i].n >= best.n THEN items[i] ELSE best)

\* max(items, key=count) from item i on: a later item replaces the best so far
\* only when its count is greater.
RECURSIVE max_item(_, _, _)
max_item(items, i, best) ==
    IF i > Len(items) THEN best
    ELSE max_item(items, i + 1, IF items[i].n > best.n THEN items[i] ELSE best)

\* counter.most_common(1), which is heapq.nlargest(1, ...), which is max().
most_common_1(counter) ==
    IF counter = <<>> THEN <<>> ELSE <<max_item(counter, 2, counter[1])>>

\* most_x[0][0] if most_x else ''
most_used(counter) ==
    IF most_common_1(counter) # <<>> THEN most_common_1(counter)[1].key ELSE <<>>

\* a + b on floats: nan when either is nan.
add(a, b) == IF a.nan \/ b.nan THEN NaN ELSE Num(a.n + b.n)

RECURSIVE sum_from(_, _)
sum_from(xs, acc) == IF xs = <<>> THEN acc ELSE sum_from(Tail(xs), add(acc, Head(xs)))

sum(xs) == sum_from(xs, Num(0))

\* f"{x / den:.2f}" for a float x >= 0 and an int den > 0: nan for nan, else the
\* hundredth nearest to the quotient, the even one when two are equally near
\* (such a quotient is an odd multiple of 1/8, which a float holds exactly).
format_2f(x, den) ==
    IF x.nan THEN <<"n","a","n">>
    ELSE LET q == (100 * x.n) \div den
             r == (100 * x.n) % den
             h == IF 2 * r > den \/ (2 * r = den /\ q % 2 = 1) THEN q + 1 ELSE q
         IN  IntToText(h \div 100) \o <<".", DigitChars[((h \div 10) % 10) + 1],
                                         DigitChars[(h % 10) + 1]>>

total_score(scores) == format_2f(IF scores # <<>> THEN sum(scores) ELSE Num(0), 1)

avg_score(scores) ==
    IF scores # <<>> THEN format_2f(sum(scores), Len(scores)) ELSE format_2f(Num(0), 1)

\* The rows create_club_analysis writes, one per club in club_data's order.
club_rows(cd) ==
    [i \in 1..Len(cd) |->
        [club |-> cd[i].key,
         unique_legacy_tables |-> IntToText(Cardinality(cd[i].legacy_tables)),
         unique_gridiron_tables |-> IntToText(Cardinality(cd[i].gridiron_tables)),
         total_query_score |-> total_score(cd[i].scores),
         avg_query_score |-> avg_score(cd[i].scores),
         most_used_legacy_table |-> most_used(cd[i].legacy_table_counts),
         most_used_gridiron_table |-> most_used(cd[i].gridiron_table_counts)]]

\* Mutation of insert_descending: an item goes in front of the items of equal count.
insert_descending_front(sorted, x) ==
    LET before == Cardinality({i \in 1..Len(sorted) :
                                  sorted[i].query_appearances > x.query_appearances})
    IN  SubSeq(sorted, 1, before) \o <<x>> \o SubSeq(sorted, before + 1, Len(sorted))

\* sorted(..., reverse=True) is stable: an item goes behind the items placed
\* before it whose count is greater or equal.
insert_descending(sorted, x) ==
    LET before == Cardinality({i \in 1..Len(sorted) :
                                  sorted[i].query_appearances >= x.query_appearances})
    IN  SubSeq(sorted, 1, before) \o <<x>> \o SubSeq(sorted, before + 1, Len(sorted))

RECURSIVE sorted_tables(_, _, _)
sorted_tables(td, i, sorted) ==
    IF i > Len(td) THEN sorted
    ELSE sorted_tables(td, i + 1, insert_descending(sorted, td[i]))

\* The rows create_table_analysis writes.
table_rows(td) ==
    LET s == sorted_tables(td, 1, <<>>)
    IN  [i \in 1..Len(s) |->
            [table_name |-> s[i].key,
             data_environment |-> s[i].environment,
             unique_clubs_using |-> IntToText(Cardinality(s[i].unique_clubs)),
             total_query_appearances |-> IntToText(s[i].query_appearances)]]

(***************************************************************************)
(* The aggregator on any input file of at most `limit` rows drawn from a   *)
(* set of rows: a row is drawn as it is read.                              *)
(***************************************************************************)
AggRow(club, data_env, s, tables) ==
    [club |-> club, data_environment |-> data_env, score |-> s,
     first_table_used |-> table_slot(tables, 0),
     second_table_used |-> table_slot(tables, 1),
     third_table_used |-> table_slot(tables, 2),
     fourth_table_used |-> table_slot(tables, 3),
     fifth_table_used |-> table_slot(tables, 4),
     sixth_table_used |-> table_slot(tables, 5)]

\* Rows that vary the club, the environment and the tables.
TableRows ==
    {AggRow(c, e, <<"6">>, ts) :
        c \in {<<"A">>, <<"B">>}, e \in {LEGACY, GRIDIRON},
        ts \in {<<<<"s","a","l","e","s">>>>, <<<<"s","a","l","e","s">>, <<"s","e","a","t","s">>>>, <<<<"s","e","a","t","s">>, <<"s","a","l","e","s">>>>}}
      \cup {AggRow(<<>>, LEGACY, <<"6">>, <<<<"f","a","n","s">>>>),
            AggRow(<<" ","A"," ">>, MIXED, <<"6">>, <<<<"s","a","l","e","s">>>>),
            AggRow(<<"A">>, NA, NA, <<>>)}

\* Rows that vary the club and the score.
ScoreRows ==
    {AggRow(c, GRIDIRON, s, <<<<"s","a","l","e","s">>>>) :
        c \in {<<"A">>, <<"B">>, <<>>}, s \in {NA, <<"6">>, <<"1","4">>, <<"a","b","c">>, <<"n","a","n">>}}

\* Rows that vary the environment, classifying and not, and the tables.
EnvRows ==
    {AggRow(<<"A">>, e, <<"6">>, ts) :
        e \in {LEGACY, GRIDIRON, MIXED, NA, UNKNOWN, <<>>},
        ts \in {<<<<"s","a","l","e","s">>>>, <<<<"s","e","a","t","s">>, <<"s","a","l","e","s">>>>}}

AggInit ==
    /\ rows_read = <<>>
    /\ club_data = <<>>
    /\ table_data = <<>>
    /\ club_summary = <<>>
    /\ table_summary = <<>>
    /\ agg_pc = "read"

AnalyzeRow(row, limit) ==
    /\ agg_pc = "read"
    /\ Len(rows_read) < limit
    /\ rows_read' = Append(rows_read, row)
    /\ club_data' = process_row(row, club_data, table_data).club_data
    /\ table_data' = process_row(row, club_data, table_data).table_data
    /\ UNCHANGED <<club_summary, table_summary, agg_pc, pipeVars, scoreVars, envVars, runVars>>

\* The input is exhausted: analyze_usage writes the club summary,
CreateClubAnalysis ==
    /\ agg_pc = "read"
    /\ club_summary' = club_rows(club_data)
    /\ agg_pc' = "table"
    /\ UNCHANGED <<rows_read, club_data, table_data, table_summary,
                   pipeVars, scoreVars, envVars, runVars>>

\* and then the table summary.
CreateTableAnalysis ==
    /\ agg_pc = "table"
    /\ table_summary' = table_rows(table_data)
    /\ agg_pc' = "done"
    /\ UNCHANGED <<rows_read, club_data, table_data, club_summary,
                   pipeVars, scoreVars, envVars, runVars>>

(***************************************************************************)
(* vini.jr_pipeline_runner.py and the stage scripts as processes on files. *)
(* A file is "absent"; "unopenable" (it exists and open() raises: a        *)
(* directory, no permission); "undecodable" (it opens and reading it       *)
(* raises, as on bytes that are not UTF-8); "old" (well-formed, left by an *)
(* earlier run); or as the running stage script has left it so far:        *)
(* "empty" (truncated by open(..., 'w')), "header", "complete".            *)
(***************************************************************************)
Stages == <<"capture", "categorize", "aggregate">>

FileNames ==
    {"raw", "query_table_captured", "categorized_queries",
     "usage_analysis_club_summary", "usage_analysis_table_summary"}

\* The file a stage script reads.
InputOf(s) ==
    CASE s = "capture" -> "raw"
      [] s = "categorize" -> "query_table_captured"
      [] s = "aggregate" -> "categorized_queries"

\* The files a stage script writes.
OutputsOf(s) ==
    CASE s = "capture" -> {"query_table_captured"}
      [] s = "categorize" -> {"categorized_queries"}
      [] s = "aggregate" -> {"usage_analysis_club_summary", "usage_analysis_table_summary"}

OutputOf(s) == CHOOSE f \in OutputsOf(s) : TRUE

\* Mutation of after_run: check=False, the exit status is not looked at.
after_run_unchecked(s, code) ==
    CASE s = "capture" -> "categorize"
      [] s = "categorize" -> "aggregate"
      [] s = "aggregate" -> "done"

\* Where main() stands after run() of stage s: subprocess.run(check=True) raises
\* CalledProcessError on a non-zero status, which nothing catches.
after_run(s, code) ==
    IF code # 0 THEN "failed"
    ELSE CASE s = "capture" -> "categorize"
           [] s = "categorize" -> "aggregate"
           [] s = "aggregate" -> "done"

\* The stage script terminates: sys.exit(1) or an uncaught exception give 1.
Exit(code, message) ==
    /\ stage_pc' = "exited"
    /\ returncode' = (stage :> code) @@ returncode
    /\ report' = message

\* __main__ of a stage script: os.path.exists(input_file).
MainExists ==
    /\ stage # "none" /\ stage_pc = "main"
    /\ IF files[InputOf(stage)] = "absent"
       THEN Exit(1, "File not found")
       ELSE stage_pc' = "open_input" /\ UNCHANGED <<returncode, report>>
    /\ UNCHANGED <<run_pc, stage, files, printed, pipeVars, scoreVars, envVars, aggVars>>

\* open(input_file, 'r', ...), the first item of the with statement.
OpenInput ==
    /\ stage # "none" /\ stage_pc = "open_input"
    /\ IF files[InputOf(stage)] = "unopenable"
       THEN Exit(1, "Traceback")
       ELSE /\ stage_pc' = IF stage = "aggregate" THEN "read_rows" ELSE "open_output"
            /\ UNCHANGED <<returncode, report>>
    /\ UNCHANGED <<run_pc, stage, files, printed, pipeVars, scoreVars, envVars, aggVars>>

\* open(output_file, 'w', ...), the second item of the with statement of
\* process_file and process_queries: the file is created or truncated.
OpenOutput ==
    /\ stage \in {"capture", "categorize"} /\ stage_pc = "open_output"
    /\ files' = [files EXCEPT ![OutputOf(stage)] = "empty"]
    /\ stage_pc' = IF stage = "capture" THEN "write_header" ELSE "fieldnames"
    /\ UNCHANGED <<run_pc, stage, returncode, printed, report,
                   pipeVars, scoreVars, envVars, aggVars>>

\* process_queries: reader.fieldnames reads the first block of the input; bytes
\* that do not decode are in that block or further on.
ReadFieldnames ==
    /\ stage = "categorize" /\ stage_pc = "fieldnames"
    /\ \/ /\ files[InputOf(stage)] = "undecodable"
          /\ Exit(1, "Traceback")
       \/ /\ stage_pc' = "write_header"
          /\ UNCHANGED <<returncode, report>>
    /\ UNCHANGED <<run_pc, stage, files, printed, pipeVars, scoreVars, envVars, aggVars>>

\* writer.writeheader()
WriteHeader ==
    /\ stage \in {"capture", "categorize"} /\ stage_pc = "write_header"
    /\ files' = [files EXCEPT ![OutputOf(stage)] = "header"]
    /\ stage_pc' = "rows"
    /\ UNCHANGED <<run_pc, stage, returncode, printed, report,
                   pipeVars, scoreVars, envVars, aggVars>>

\* for row in reader: ... writer.writerow(...), to the end of the input or to
\* the exception; the with statement closes the output either way.
ProcessRows ==
    /\ stage \in {"capture", "categorize"} /\ stage_pc = "rows"
    /\ IF files[InputOf(stage)] = "undecodable"
       THEN Exit(1, "Traceback") /\ UNCHANGED files
       ELSE /\ files' = [files EXCEPT ![OutputOf(stage)] = "complete"]
            /\ Exit(0, "none")
    /\ UNCHANGED <<run_pc, stage, printed, pipeVars, scoreVars, envVars, aggVars>>

\* analyze_usage: the loop over the rows, which writes no file.
ReadRows ==
    /\ stage = "aggregate" /\ stage_pc = "read_rows"
    /\ IF files[InputOf(stage)] = "undecodable"
       THEN Exit(1, "Traceback")
       ELSE stage_pc' = "club_analysis" /\ UNCHANGED <<returncode, report>>
    /\ UNCHANGED <<run_pc, stage, files, printed, pipeVars, scoreVars, envVars, aggVars>>

\* create_club_analysis(f"{base_name}_club_summary.csv", club_data)
WriteClubSummary ==
    /\ stage = "aggregate" /\ stage_pc = "club_analysis"
    /\ files' = [files EXCEPT !["usage_analysis_club_summary"] = "complete"]
    /\ stage_pc' = "table_analysis"
    /\ UNCHANGED <<run_pc, stage, returncode, printed, report,
                   pipeVars, scoreVars, envVars, aggVars>>

\* create_table_analysis(f"{base_name}_table_summary.csv", table_data), then
\* print_quick_summary, which reads the two files just written.
WriteTableSummary ==
    /\ stage = "aggregate" /\ stage_pc = "table_analysis"
    /\ files' = [files EXCEPT !["usage_analysis_table_summary"] = "complete"]
    /\ Exit(0, "none")
    /\ UNCHANGED <<run_pc, stage, printed, pipeVars, scoreVars, envVars, aggVars>>

StageStep ==
    \/ MainExists \/ OpenInput \/ OpenOutput \/ ReadFieldnames \/ WriteHeader
    \/ ProcessRows \/ ReadRows \/ WriteClubSummary \/ WriteTableSummary

\* run(cmd): the command is announced and the stage script started.
Run ==
    /\ stage = "none"
    /\ \E n \in 1..Len(Stages) : run_pc = Stages[n]
    /\ printed' = Append(printed, run_pc)
    /\ stage' = run_pc
    /\ stage_pc' = "main"
    /\ report' = "none"
    /\ UNCHANGED <<run_pc, files, returncode, pipeVars, scoreVars, envVars, aggVars>>

\* subprocess.run returns or raises once the stage script has terminated.
RunReturns ==
    /\ stage # "none" /\ stage_pc = "exited" /\ run_pc = stage
    /\ run_pc' = after_run(stage, returncode[stage])
    /\ stage' = "none"
    /\ stage_pc' = "idle"
    /\ UNCHANGED <<files, returncode, printed, report,
                   pipeVars, scoreVars, envVars, aggVars>>

\* Between two stages something else removes the intermediate file.
FileRemoved ==
    /\ stage = "none" /\ run_pc \in {"categorize", "aggregate"}
    /\ files[InputOf(run_pc)] # "absent"
    /\ files' = [files EXCEPT ![InputOf(run_pc)] = "absent"]
    /\ UNCHANGED <<run_pc, stage, stage_pc, returncode, printed, report,
                   pipeVars, scoreVars, envVars, aggVars>>

\* What a run can find on disk: any raw file, and output files of an earlier
\* run or none.
InitialFiles ==
    {fs \in [FileNames -> {"absent", "unopenable", "undecodable", "old"}] :
        \A f \in FileNames \ {"raw"} : fs[f] \in {"absent", "old"}}

\* main(raw_file) of the runner.
RunInit ==
    /\ run_pc = "capture"
    /\ stage = "none"
    /\ stage_pc = "idle"
    /\ files \in InitialFiles
    /\ returncode = <<>>
    /\ printed = <<>>
    /\ report = "none"

\* One stage script started by hand on any input file.
StageInit ==
    /\ run_pc = "none"
    /\ stage \in {Stages[n] : n \in 1..Len(Stages)}
    /\ stage_pc = "main"
    /\ files \in {fs \in [FileNames -> {"absent", "unopenable", "undecodable", "old"}] :
                     \A f \in FileNames \ {InputOf(stage)} : fs[f] \in {"absent", "old"}}
    /\ returncode = <<>>
    /\ printed = <<>>
    /\ report = "none"

(***************************************************************************)
(* Properties of the capture and categorization stages (Spec).             *)
(***************************************************************************)
\* The matches of both patterns in q, the legacy ones first.
AllMatches(q) ==
    Tagged(LEGACY, re_findall(legacy_pattern, q))
        \o Tagged(GRIDIRON, re_findall(gridiron_pattern, q))

NoReference(q) == AllMatches(q) = <<>>

FirstIndex(all, table) ==
    CHOOSE i \in 1..Len(all) :
        all[i][2] = table /\ \A j \in 1..(i - 1) : all[j][2] # table

\* C1 as stated: the scoring stage gives the scenario query score 3 and the
\* category "Focused Exploratory".
C1_ScenarioScoreThree ==
    \A n \in 1..Len(categorized) :
        categorized[n].query = ScenarioQuery
            => /\ categorized[n].score = <<"3">>
               /\ categorized[n].category = <<"F","o","c","u","s","e","d"," ","E","x","p","l","o","r","a","t","o","r","y">>

\* C1 amended: the scenario query contains "SELECT *", so it earns only the two
\* points of its where clause: score 2, category "Basic Exploratory".
C1_ScenarioScoreTwo ==
    \A n \in 1..Len(categorized) :
        categorized[n].query = ScenarioQuery
            => /\ categorized[n].completeness = <<"1">>
               /\ categorized[n].score = <<"2">>
               /\ categorized[n].category = <<"B","a","s","i","c"," ","E","x","p","l","o","r","a","t","o","r","y">>
               /\ categorized[n].explanation = <<"W","H","E","R","E"," ","c","l","a","u","s","e"," ","(","2",")">>

C1_Witness ==
    \E n \in 1..Len(categorized) :
        /\ categorized[n].query = ScenarioQuery
        /\ categorized[n].first_table_used = <<"t","i","c","k","e","t","i","n","g","_","s","a","l","e","s">>
        /\ categorized[n].data_environment = GRIDIRON

\* C2: a query text that neither pattern matches is written by the capture stage
\* with completeness 0 and data_environment N/A, and by the categorization stage
\* with score N/A and category Invalid/Incomplete.
C2_IncompleteSentinels ==
    /\ \A n \in 1..Len(captured) :
          NoReference(captured[n].query)
              => /\ captured[n].completeness = <<"0">>
                 /\ captured[n].data_environment = NA
    /\ \A n \in 1..Len(categorized) :
          NoReference(categorized[n].query)
              => /\ categorized[n].score = NA
                 /\ categorized[n].category = <<"I","n","v","a","l","i","d","/","I","n","c","o","m","p","l","e","t","e">>

C2_Witness ==
    \E n \in 1..Len(categorized) :
        /\ NoReference(categorized[n].query)
        /\ Len(categorized[n].query) > 0
        /\ categorized[n].score = NA

\* C3: extract_tables returns the legacy matches followed by the gridiron matches
\* with duplicates removed by raw identifier: no identifier twice, each at the
\* place of its first occurrence in the concatenation, the order kept.
C3_FirstOccurrenceKept ==
    pc # "capture" =>
        LET all == AllMatches(raw[Len(captured)].Query)
            r == table_info_list
        IN  /\ \A i, j \in 1..Len(r) : i # j => r[i][2] # r[j][2]
            /\ {r[i][2] : i \in 1..Len(r)} = {all[i][2] : i \in 1..Len(all)}
            /\ \A i \in 1..Len(r) : r[i] = all[FirstIndex(all, r[i][2])]
            /\ \A i, j \in 1..Len(r) :
                  i < j => FirstIndex(all, r[i][2]) < FirstIndex(all, r[j][2])

C3_Witness ==
    /\ pc # "capture"
    /\ Len(AllMatches(raw[Len(captured)].Query)) > Len(table_info_list)
    /\ \E i, j \in 1..Len(table_info_list) :
          /\ i < j
          /\ table_info_list[i][1] = LEGACY
          /\ table_info_list[j][1] = GRIDIRON

\* C4: a query with more than six distinct table references is written with six
\* non-empty slots holding the first six normalized names in order, and with
\* table_used_num equal to the number of distinct references.
C4_SixSlotsPopulated ==
    \A n \in 1..Len(captured) :
        LET all == AllMatches(captured[n].query)
            distinct == {all[i][2] : i \in 1..Len(all)}
            r == table_info_list
            slots == <<captured[n].first_table_used, captured[n].second_table_used,
                       captured[n].third_table_used, captured[n].fourth_table_used,
                       captured[n].fifth_table_used, captured[n].sixth_table_used>>
        IN  Cardinality(distinct) > 6
                => /\ \A k \in 1..6 : slots[k] # <<>>
                   /\ \A k \in 1..6 :
                         slots[k] = get_simplified_table_name(r[k][2], r[k][1])
                   /\ captured[n].table_used_num = IntToText(Cardinality(distinct))

(***************************************************************************)
(* Properties of determine_primary_environment (SpecEnv).                  *)
(***************************************************************************)
TagCount(l, tag) == Len(SelectSeq(l, LAMBDA e : e[1] = tag))

\* C5: completeness 0 gives N/A whatever the list; otherwise an empty list gives
\* unknown, more legacy than gridiron references legacy, more gridiron than
\* legacy gridiron, and equal counts with both above zero mixed.
C5_DecisionTable ==
    ret_env # <<>> =>
        LET l == TagCount(arg_list, LEGACY)
            g == TagCount(arg_list, GRIDIRON)
        IN  /\ arg_completeness = 0 => ret_env = NA
            /\ arg_completeness # 0 /\ arg_list = <<>> => ret_env = UNKNOWN
            /\ arg_completeness # 0 /\ l > g => ret_env = LEGACY
            /\ arg_completeness # 0 /\ g > l => ret_env = GRIDIRON
            /\ arg_completeness # 0 /\ l = g /\ l > 0 => ret_env = MIXED

C5_Witness ==
    /\ ret_env = MIXED
    /\ arg_completeness = 1
    /\ TagCount(arg_list, LEGACY) = 2
    /\ TagCount(arg_list, GRIDIRON) = 2

(***************************************************************************)
(* Properties of score_query and explain_score (SpecScore).  The weight    *)
(* table is restated on plain substring occurrences in the lower-cased     *)
(* text, without the regular expressions of the code.                      *)
(***************************************************************************)
Occurrences(word, t) ==
    {i \in 1..(Len(t) - Len(word) + 1) :
        \A k \in 1..Len(word) : ToLower(t[i + k - 1]) = word[k]}

Present(word, t) == Occurrences(word, t) # {}

\* The places where an aggregate-function name is followed by "(", whitespace
\* allowed in between.
AggregateCalls(t) ==
    {i \in 1..Len(t) :
        \E word \in {<<"c","o","u","n","t">>, <<"s","u","m">>, <<"a","v","g">>, <<"m","a","x">>, <<"m","i","n">>} :
            /\ i \in Occurrences(word, t)
            /\ \E j \in (i + Len(word))..Len(t) :
                  /\ t[j] = "("
                  /\ \A k \in (i + Len(word))..(j - 1) : t[k] \in Whitespace}

Signal(label, value) == [label |-> label, value |-> value]

WeightTable(t) ==
    LET aggs == Cardinality(AggregateCalls(t))
    IN  << Signal(<<"S","E","L","E","C","T"," ","w","i","t","h"," ","s","p","e","c","i","f","i","c"," ","c","o","l","u","m","n","s">>,
                  IF Present(<<"s","e","l","e","c","t"," ","*">>, t) THEN 0 ELSE 1),
           Signal(<<"L","I","M","I","T"," ","c","l","a","u","s","e">>, IF Present(<<"l","i","m","i","t">>, t) THEN 1 ELSE 0),
           Signal(<<"W","H","E","R","E"," ","c","l","a","u","s","e">>, IF Present(<<"w","h","e","r","e">>, t) THEN 2 ELSE 0),
           Signal(<<"H","A","V","I","N","G"," ","c","l","a","u","s","e">>, IF Present(<<"h","a","v","i","n","g">>, t) THEN 2 ELSE 0),
           Signal(<<"O","R","D","E","R"," ","B","Y">>, IF Present(<<"o","r","d","e","r"," ","b","y">>, t) THEN 1 ELSE 0),
           Signal(<<"J","O","I","n","s">>, 3 * Cardinality(Occurrences(<<"j","o","i","n">>, t))),
           Signal(<<"G","R","O","U","P"," ","B","Y">>, IF Present(<<"g","r","o","u","p"," ","b","y">>, t) THEN 2 ELSE 0),
           Signal(<<"A","g","g","r","e","g","a","t","i","o","n","s">>, IF aggs = 0 THEN 0 ELSE aggs + 1),
           Signal(<<"S","u","b","q","u","e","r","i","e","s">>, 3 * Cardinality(Occurrences(<<"(","s","e","l","e","c","t">>, t))),
           Signal(<<"C","o","m","m","o","n"," ","T","a","b","l","e"," ","E","x","p","r","e","s","s","i","o","n","s">>, IF Present(<<"w","i","t","h">>, t) THEN 5 ELSE 0),
           Signal(<<"S","e","t"," ","o","p","e","r","a","t","i","o","n","s">>,
                  IF Present(<<"u","n","i","o","n">>, t) \/ Present(<<"i","n","t","e","r","s","e","c","t">>, t)
                        \/ Present(<<"e","x","c","e","p","t">>, t) THEN 5 ELSE 0),
           Signal(<<"W","i","n","d","o","w"," ","f","u","n","c","t","i","o","n","s">>,
                  IF \E i \in Occurrences(<<"o","v","e","r">>, t) :
                        \E j \in (i + 4)..Len(t) :
                            t[j] = "(" /\ \A k \in (i + 4)..(j - 1) : t[k] \in Whitespace
                  THEN 6 ELSE 0),
           Signal(<<"P","I","V","O","T","/","U","N","P","I","V","O","T">>, IF Present(<<"p","i","v","o","t">>, t) THEN 6 ELSE 0) >>

\* The entries an explanation must list: the signals that contributed, in the
\* order of the weight table, each as "label (contribution)".
ExpectedEntries(t) ==
    LET contributing == SelectSeq(WeightTable(t), LAMBDA s : s.value # 0)
    IN  [n \in 1..Len(contributing) |->
            contributing[n].label \o <<" ","(">> \o IntToText(contributing[n].value) \o <<")">>]

RECURSIVE DigitRun(_, _)
DigitRun(t, i) == IF i <= Len(t) /\ t[i] \in Digits THEN 1 + DigitRun(t, i + 1) ELSE 0

\* The sum of the numbers an explanation shows in parentheses.
RECURSIVE SumParenthesized(_, _)
SumParenthesized(t, i) ==
    IF i > Len(t) THEN 0
    ELSE LET n == DigitRun(t, i + 1)
         IN  IF t[i] = "(" /\ n > 0 /\ i + n + 1 <= Len(t) /\ t[i + n + 1] = ")"
             THEN ParseInt(SubSeq(t, i + 1, i + n)) + SumParenthesized(t, i + n + 2)
             ELSE SumParenthesized(t, i + 1)

\* C6: the numbers in parentheses in explain_score's string add up to
\* score_query's value, and the string lists exactly the signals that
\* contributed, in the order of the weight table, joins and aggregations as one
\* total each.
C6_ExplanationAddsUp ==
    /\ SumParenthesized(explanation, 1) = score
    /\ explanation = Join(<<","," ">>, ExpectedEntries(query))

C6_Witness ==
    /\ explanation = <<"S","E","L","E","C","T"," ","w","i","t","h"," ","s","p","e","c","i","f","i","c"," ","c","o","l","u","m","n","s"," ","(","1",")",","," ","A","g","g","r","e","g","a","t","i","o","n","s"," ","(","3",")">>
    /\ score = 4

\* The occurrences of the qualifying constructs in text t, each as the span
\* <<first, last>> of its characters; an aggregate or window call runs from its
\* name to its parenthesis.
ConstructSpans(t) ==
    UNION {{<<i, i + Len(word) - 1>> : i \in Occurrences(word, t)} :
              word \in {<<"l","i","m","i","t">>, <<"w","h","e","r","e">>, <<"h","a","v","i","n","g">>, <<"o","r","d","e","r"," ","b","y">>, <<"j","o","i","n">>,
                        <<"g","r","o","u","p"," ","b","y">>, <<"(","s","e","l","e","c","t">>, <<"w","i","t","h">>, <<"u","n","i","o","n">>,
                        <<"i","n","t","e","r","s","e","c","t">>, <<"e","x","c","e","p","t">>, <<"p","i","v","o","t">>}}
      \cup UNION {{<<i, j>> : j \in {j \in (i + Len(word))..Len(t) :
                                       /\ t[j] = "("
                                       /\ \A k \in (i + Len(word))..(j - 1) :
                                              t[k] \in Whitespace}} :
                     <<word, i>> \in {<<w, n>> \in
                         {<<"c","o","u","n","t">>, <<"s","u","m">>, <<"a","v","g">>, <<"m","a","x">>, <<"m","i","n">>, <<"o","v","e","r">>}
                             \X (1..Len(t)) : n \in Occurrences(w, t)}}

\* The number of characters in front of boundary i of the pieces ps.
Offset(ps, i) == Len(Flatten(SubSeq(ps, 1, i)))

\* Text put in at boundary i goes between the occurrences already in the
\* text, not into one of them.
BetweenOccurrences(ps, i) ==
    i \in 1..(Len(ps) - 1) =>
        \A span \in ConstructSpans(Flatten(ps)) :
            ~(span[1] <= Offset(ps, i) /\ Offset(ps, i) < span[2])

\* C7: a step that adds one more occurrence of a qualifying construct to the
\* query text, between the occurrences it already has, never lowers
\* score_query's value.
C7_Monotone ==
    [][(\E c \in ConstructSet : \E i \in 0..Len(parts) :
            parts' = InsertAt(parts, c, i) /\ BetweenOccurrences(parts, i))
          => score' >= score]_vars

\* A nested select put in front of " *": the wildcard point is lost, three are won.
C7_Witness ==
    /\ parts = <<<<" ","(","S","E","L","E","C","T">>, <<" ","*">>>>
    /\ score = 3

(***************************************************************************)
(* Properties of the aggregator (SpecAgg, SpecAggScore), stated on the     *)
(* rows read.  A cell <<n, k>> is table column k of row n; cells are       *)
(* visited row by row, column by column.                                   *)
(***************************************************************************)
CellTable(c) == Strip(rows_read[c[1]][TableColumns[c[2]]])

Cells ==
    {c \in (1..Len(rows_read)) \X (1..Len(TableColumns)) : CellTable(c) # <<>>}

Before(c, d) == c[1] < d[1] \/ (c[1] = d[1] /\ c[2] < d[2])

\* The cells that increment the counter of `table` for `club` in `env`.
Uses(club, env, table) ==
    {c \in Cells :
        /\ Strip(rows_read[c[1]].club) = club
        /\ Strip(rows_read[c[1]].data_environment) = env
        /\ CellTable(c) = table}

FirstOf(cells) == CHOOSE c \in cells : \A d \in cells \ {c} : Before(c, d)

LastOf(cells) == CHOOSE c \in cells : \A d \in cells \ {c} : Before(d, c)

\* The tables whose usage count for `club` in `env` is the greatest.
MostUsed(club, env) ==
    LET used == {CellTable(c) : c \in {d \in Cells : Uses(club, env, CellTable(d)) # {}}}
    IN  {t \in used :
            \A u \in used :
                Cardinality(Uses(club, env, u)) <= Cardinality(Uses(club, env, t))}

Reported(row, env) ==
    IF env = LEGACY THEN row.most_used_legacy_table ELSE row.most_used_gridiron_table

\* C8: of the tables that share the greatest usage count of a club in an
\* environment when the summary is written, the club summary reports the one
\* whose counter was incremented first, whatever the order of the later increments.
C8_FirstIncrementedWins ==
    agg_pc \in {"table", "done"} =>
        \A i \in 1..Len(club_summary) : \A env \in {LEGACY, GRIDIRON} :
            LET club == club_summary[i].club
                top == MostUsed(club, env)
            IN  top # {} =>
                  /\ Reported(club_summary[i], env) \in top
                  /\ \A u \in top \ {Reported(club_summary[i], env)} :
                        Before(FirstOf(Uses(club, env, Reported(club_summary[i], env))),
                               FirstOf(Uses(club, env, u)))

\* Two tables tied at two uses each; the one reported got its last use after
\* the other one, which therefore had reached the count first.
C8_Witness ==
    /\ agg_pc = "done"
    /\ \E i \in 1..Len(club_summary) : \E env \in {LEGACY, GRIDIRON} :
          LET club == club_summary[i].club
              top == MostUsed(club, env)
              won == Reported(club_summary[i], env)
          IN  /\ Cardinality(top) = 2
              /\ Cardinality(Uses(club, env, won)) = 2
              /\ \E u \in top \ {won} :
                    Before(LastOf(Uses(club, env, u)), LastOf(Uses(club, env, won)))

\* What a score counts for: its value when it is a number, 0 when it is N/A or
\* anything else.
CountedScore(s) ==
    IF Strip(s) # <<>> /\ \A i \in 1..Len(Strip(s)) : Strip(s)[i] \in Digits
    THEN ParseInt(Strip(s))
    ELSE 0

RowsOf(club) == SelectSeq(rows_read, LAMBDA r : Strip(r.club) = club)

RECURSIVE CountedTotal(_)
CountedTotal(rows) ==
    IF rows = <<>> THEN 0 ELSE CountedScore(Head(rows).score) + CountedTotal(Tail(rows))

\* num / den to the nearest hundredth, as text with two decimals.
TwoDecimals(num, den) ==
    LET h == CHOOSE x \in 0..(100 * num + 1) :
                 /\ 2 * (100 * num - x * den) <= den
                 /\ 2 * (x * den - 100 * num) <= den
    IN  IntToText(h \div 100) \o <<".">> \o IntToText((h \div 10) % 10) \o IntToText(h % 10)

\* C9: for every club with a non-empty name, total_query_score is the sum of the
\* scores of the club's rows, N/A and non-numeric scores counting 0, and
\* avg_query_score is that total divided by the number of those rows; the
\* scores 0, 6, 14 give total 20.00 and average 6.67.
C9_TotalAndAverage ==
    agg_pc \in {"table", "done"} =>
        /\ {club_summary[i].club : i \in 1..Len(club_summary)}
              = {Strip(rows_read[n].club) : n \in 1..Len(rows_read)} \ {<<>>}
        /\ \A i, j \in 1..Len(club_summary) :
              i # j => club_summary[i].club # club_summary[j].club
        /\ \A i \in 1..Len(club_summary) :
              LET mine == RowsOf(club_summary[i].club)
                  total == CountedTotal(mine)
              IN  /\ club_summary[i].total_query_score = TwoDecimals(total, 1)
                  /\ club_summary[i].avg_query_score = TwoDecimals(total, Len(mine))
                  /\ [n \in 1..Len(mine) |-> CountedScore(mine[n].score)] = <<0, 6, 14>>
                        => /\ club_summary[i].total_query_score = <<"2","0",".","0","0">>
                           /\ club_summary[i].avg_query_score = <<"6",".","6","7">>

FirstSeen(table) == FirstOf({c \in Cells : CellTable(c) = table})

\* C10: the table summary has exactly one row per table name seen in a non-empty
\* slot, ordered by total_query_appearances descending; tables with equal counts
\* keep the order in which they were first encountered.
C10_TableSummaryOrder ==
    agg_pc = "done" =>
        /\ {table_summary[i].table_name : i \in 1..Len(table_summary)}
              = {CellTable(c) : c \in Cells}
        /\ \A i, j \in 1..Len(table_summary) :
              i < j =>
                LET a == ParseInt(table_summary[i].total_query_appearances)
                    b == ParseInt(table_summary[j].total_query_appearances)
                IN  /\ table_summary[i].table_name # table_summary[j].table_name
                    /\ a >= b
                    /\ a = b => Before(FirstSeen(table_summary[i].table_name),
                                       FirstSeen(table_summary[j].table_name))

\* Three tables: two tied ones in their encounter order, in front of one that
\* was seen before both.
C10_Witness ==
    /\ agg_pc = "done"
    /\ Len(table_summary) = 3
    /\ table_summary[1].total_query_appearances = table_summary[2].total_query_appearances
    /\ Before(FirstSeen(table_summary[3].table_name), FirstSeen(table_summary[1].table_name))

\* The cell at which the counter of `table` for `club` in `env` got the value
\* it has now.
ReachedCount(club, env, table) == LastOf(Uses(club, env, table))

\* The cell at which the counter of `table` for `club` in `env` was created.
FirstIncrement(club, env, table) == FirstOf(Uses(club, env, table))

\* C13 as stated: among the tables tied at the greatest usage count of a club
\* in an environment, the one reported as most used is the one that was first
\* to reach that count during the pass over the rows.
C13_FirstToReachMaximumWins ==
    agg_pc \in {"table", "done"} =>
        \A i \in 1..Len(club_summary) : \A env \in {LEGACY, GRIDIRON} :
            LET club == club_summary[i].club
                top == MostUsed(club, env)
                won == Reported(club_summary[i], env)
            IN  top # {} =>
                  /\ won \in top
                  /\ \A u \in top \ {won} :
                        Before(ReachedCount(club, env, won), ReachedCount(club, env, u))

\* C13 amended: among the tables tied at the greatest usage count of a club in
\* an environment, the one reported as most used is the one whose counter was
\* created first, also when another of them reached the greatest count before
\* it did.
C13_FirstCreatedCounterWins ==
    agg_pc \in {"table", "done"} =>
        \A i \in 1..Len(club_summary) : \A env \in {LEGACY, GRIDIRON} :
            LET club == club_summary[i].club
                top == MostUsed(club, env)
                won == Reported(club_summary[i], env)
            IN  top # {} =>
                  /\ won \in top
                  /\ \A u \in top :
                        \/ u = won
                        \/ Before(FirstIncrement(club, env, won),
                                  FirstIncrement(club, env, u))

\* Three rows of one club in one environment: the table reported and another
\* one are tied, and the other one was the first to reach the tied count.
C13_Witness ==
    /\ agg_pc = "done"
    /\ Len(rows_read) = 3
    /\ \A n \in 1..3 : rows_read[n].club = rows_read[1].club
                         /\ rows_read[n].data_environment = LEGACY
    /\ \E i \in 1..Len(club_summary) :
          LET club == club_summary[i].club
              top == MostUsed(club, LEGACY)
              won == club_summary[i].most_used_legacy_table
          IN  \E u \in top \ {won} :
                 /\ Before(ReachedCount(club, LEGACY, u), ReachedCount(club, LEGACY, won))
                 /\ Before(FirstIncrement(club, LEGACY, won), FirstIncrement(club, LEGACY, u))

\* The rows that list `table` in a slot and carry a classifying environment.
Classifying(table) ==
    {n \in 1..Len(rows_read) :
        /\ Strip(rows_read[n].data_environment) \in {LEGACY, GRIDIRON}
        /\ \E k \in 1..Len(TableColumns) : CellTable(<<n, k>>) = table}

Latest(ns) == CHOOSE n \in ns : \A m \in ns : m <= n

\* C14: a table's data_environment in the table summary is the environment of
\* the last row that listed the table and whose environment was legacy or
\* gridiron; rows with any other environment leave it as it was, and it is
\* unknown when no legacy or gridiron row listed the table.
C14_LastClassifyingRowWins ==
    agg_pc = "done" =>
        \A i \in 1..Len(table_summary) :
            LET rows == Classifying(table_summary[i].table_name)
            IN  table_summary[i].data_environment =
                    IF rows = {} THEN UNKNOWN
                    ELSE Strip(rows_read[Latest(rows)].data_environment)

\* A table listed by a gridiron row, then a legacy row, then a mixed row: the
\* second write replaced the first and the third row wrote nothing.
C14_Witness ==
    /\ agg_pc = "done"
    /\ Len(rows_read) = 3
    /\ rows_read[1].data_environment = GRIDIRON
    /\ rows_read[2].data_environment = LEGACY
    /\ rows_read[3].data_environment = MIXED
    /\ \E i \in 1..Len(table_summary) :
          /\ Classifying(table_summary[i].table_name) = {1, 2}
          /\ \E k \in 1..Len(TableColumns) :
                CellTable(<<3, k>>) = table_summary[i].table_name
          /\ table_summary[i].data_environment = LEGACY

TableSet(entry, env) ==
    IF env = LEGACY THEN entry.legacy_tables ELSE entry.gridiron_tables

UsageCounter(entry, env) ==
    IF env = LEGACY THEN entry.legacy_table_counts ELSE entry.gridiron_table_counts

UniqueTables(row, env) ==
    IF env = LEGACY THEN row.unique_legacy_tables ELSE row.unique_gridiron_tables

\* C17: after any prefix of the rows, for every club and each of legacy and
\* gridiron, the club's unique-table set is the key set of its usage counter,
\* every count is at least 1, and both hold the tables of the club's rows of
\* that environment only; in the club summary the most-used table is empty
\* exactly when the unique-table count is 0, and otherwise one of the set.
C17_SetsAndCountersAgree ==
    /\ \A i \in 1..Len(club_data) : \A env \in {LEGACY, GRIDIRON} :
          LET counter == UsageCounter(club_data[i], env)
          IN  /\ TableSet(club_data[i], env) = {counter[n].key : n \in 1..Len(counter)}
              /\ \A n \in 1..Len(counter) : counter[n].n >= 1
              /\ \A n \in 1..Len(counter) :
                    counter[n].n = Cardinality(Uses(club_data[i].key, env, counter[n].key))
              /\ TableSet(club_data[i], env) =
                    {t \in {CellTable(c) : c \in Cells} :
                        Uses(club_data[i].key, env, t) # {}}
    /\ agg_pc \in {"table", "done"} =>
          /\ Len(club_summary) = Len(club_data)
          /\ \A i \in 1..Len(club_summary) : \A env \in {LEGACY, GRIDIRON} :
                /\ Reported(club_summary[i], env) = <<>>
                      <=> UniqueTables(club_summary[i], env) = <<"0">>
                /\ UniqueTables(club_summary[i], env) =
                      IntToText(Cardinality(TableSet(club_data[i], env)))
                /\ Reported(club_summary[i], env) # <<>>
                      => Reported(club_summary[i], env) \in TableSet(club_data[i], env)

\* A club with a gridiron row and a mixed row, both listing tables: nothing is
\* counted as legacy, and the mixed row counted nowhere.
C17_Witness ==
    /\ agg_pc = "done"
    /\ \E i \in 1..Len(club_summary) :
          /\ club_summary[i].unique_legacy_tables = <<"0">>
          /\ club_summary[i].most_used_legacy_table = <<>>
          /\ club_summary[i].unique_gridiron_tables = <<"1">>
          /\ club_summary[i].most_used_gridiron_table # <<>>
          /\ \E n \in 1..Len(rows_read) :
                /\ Strip(rows_read[n].club) = club_summary[i].club
                /\ rows_read[n].data_environment = MIXED
                /\ rows_read[n].first_table_used # <<>>

(***************************************************************************)
(* Further properties of the capture stage (Spec).                         *)
(***************************************************************************)
EndsWithViewSuffix(t) == Len(t) >= 3 /\ Lower(SubSeq(t, Len(t) - 2, Len(t))) = <<"_","v","w">>

\* The name of a legacy identifier: its final dot-segment, without the view
\* suffix the pattern matched at its end, and without its final
\* underscore-delimited segment when it has more than one.
LegacyName(table) ==
    LET segments == Split(table, ".")
        final == segments[Len(segments)]
        stem == IF EndsWithViewSuffix(final) THEN SubSeq(final, 1, Len(final) - 3)
                ELSE final
        ps == Split(stem, "_")
    IN  IF Len(ps) > 1 THEN Join(<<"_">>, SubSeq(ps, 1, Len(ps) - 1)) ELSE stem

SlotOf(row, n) == row[TableColumns[n]]

\* C15 as stated: every identifier the legacy pattern matched is written by the
\* capture stage as its final dot-segment with the view suffix stripped from
\* its end and the final underscore-delimited segment dropped if more than one
\* segment remains.
C15_LegacyNameNormalized ==
    pc # "capture" =>
        \A n \in 1..Min(Len(table_info_list), Len(TableColumns)) :
            table_info_list[n][1] = LEGACY
                => SlotOf(captured[Len(captured)], n) = LegacyName(table_info_list[n][2])

\* The spans <<first, last>> of the matches of a pattern in text q.
MatchSpans(re, q) ==
    LET spans == FindFrom(FoldCase(re), Lower(q), 1)
    IN  {spans[n] : n \in 1..Len(spans)}

Inside(g, l) == l[1] <= g[1] /\ g[2] <= l[2]

\* C16 as stated: in the query of the row just captured, no span of text inside
\* a legacy match is also reported as a gridiron reference.
C16_PatternsDisjoint ==
    pc # "capture" =>
        LET q == raw[Len(captured)].Query
        IN  \A l \in MatchSpans(legacy_pattern, q) :
                \A g \in MatchSpans(gridiron_pattern, q) :
                    ~(/\ Inside(g, l)
                      /\ \E n \in 1..Len(table_info_list) :
                            table_info_list[n] = <<GRIDIRON, SubSeq(q, g[1], g[2])>>)

(***************************************************************************)
(* Properties of the runner (SpecRun) and of a stage script on its files   *)
(* (SpecStage).                                                            *)
(***************************************************************************)
IsPrefix(s, t) == Len(s) <= Len(t) /\ SubSeq(t, 1, Len(s)) = s

Terminated(s) == s \in DOMAIN returncode

Failed(s) == Terminated(s) /\ returncode[s] # 0

\* C11: the runner starts the stages in the order capture, categorization,
\* aggregation, each only after the one before it has terminated with status 0;
\* after a stage has exited with a non-zero status no later stage is started
\* and the run ends as failed, never as done.
C11_StagesInOrder ==
    /\ IsPrefix(printed, Stages)
    /\ stage # "none" => printed # <<>> /\ stage = printed[Len(printed)]
    /\ \A n \in 2..Len(printed) :
          Terminated(printed[n - 1]) /\ returncode[printed[n - 1]] = 0
    /\ \A n \in 1..Len(printed) :
          Failed(printed[n]) =>
              /\ Len(printed) = n
              /\ run_pc # "done"
              /\ stage = "none" => run_pc = "failed"
    /\ run_pc = "done" =>
          printed = Stages /\ \A n \in 1..Len(Stages) : returncode[Stages[n]] = 0
    /\ run_pc = "failed" => \E n \in 1..Len(printed) : Failed(printed[n])

\* The second stage has failed: the run has failed and the third stage was
\* never started.
C11_Witness ==
    /\ run_pc = "failed"
    /\ printed = <<"capture", "categorize">>
    /\ returncode["capture"] = 0
    /\ returncode["categorize"] = 1
    /\ ~Terminated("aggregate")

MissingOrUnreadable == {"absent", "unopenable", "undecodable"}

\* C12 as stated: a stage script whose input file is missing or unreadable
\* leaves each of its output files as it found it, absent or as an earlier run
\* wrote it, and once it has exited it has reported the failure and its status
\* is not 0.
C12_NoOutputOnBadInput ==
    (stage # "none" /\ files[InputOf(stage)] \in MissingOrUnreadable) =>
        /\ \A f \in OutputsOf(stage) : files[f] \in {"absent", "old"}
        /\ stage_pc = "exited" => returncode[stage] # 0 /\ report # "none"

(***************************************************************************)
(* Specifications.                                                         *)
(***************************************************************************)
ScoreIdle == parts = <<>> /\ query = <<>> /\ score = 0 /\ explanation = <<>>

EnvIdle == arg_list = <<>> /\ arg_completeness = 0 /\ ret_env = <<>>

AggIdle ==
    /\ rows_read = <<>> /\ club_data = <<>> /\ table_data = <<>>
    /\ club_summary = <<>> /\ table_summary = <<>> /\ agg_pc = "idle"

RunIdle ==
    /\ run_pc = "none" /\ stage = "none" /\ stage_pc = "idle"
    /\ files = [f \in FileNames |-> "absent"]
    /\ returncode = <<>> /\ printed = <<>> /\ report = "none"

\* The capture and categorization stages.
Init == PipeInit /\ ScoreIdle /\ EnvIdle /\ AggIdle /\ RunIdle

Next == ProcessFileRow \/ ProcessQueriesRow

Spec == Init /\ [][Next]_vars

\* score_query and explain_score.
InitScore == PipeIdle /\ ScoreInit /\ EnvIdle /\ AggIdle /\ RunIdle

NextScore == \E f \in ScoreVocab : \E i \in 0..Len(parts) : InsertFragment(f, i)

SpecScore == InitScore /\ [][NextScore]_vars

\* determine_primary_environment.
InitEnv == PipeIdle /\ ScoreIdle /\ EnvInit /\ AggIdle /\ RunIdle

NextEnv == DetermineEnvironment

SpecEnv == InitEnv /\ [][NextEnv]_vars

\* The aggregator on rows that vary clubs, environments and tables.
InitAgg == PipeIdle /\ ScoreIdle /\ EnvIdle /\ AggInit /\ RunIdle

NextAgg ==
    \/ \E row \in TableRows : AnalyzeRow(row, MaxRows)
    \/ CreateClubAnalysis
    \/ CreateTableAnalysis

SpecAgg == InitAgg /\ [][NextAgg]_vars

\* The aggregator on rows that vary clubs and scores.
NextAggScore ==
    \/ \E row \in ScoreRows : AnalyzeRow(row, MaxScoreRows)
    \/ CreateClubAnalysis
    \/ CreateTableAnalysis

SpecAggScore == InitAgg /\ [][NextAggScore]_vars

\* The aggregator on rows that vary environments and tables.
NextAggEnv ==
    \/ \E row \in EnvRows : AnalyzeRow(row, MaxEnvRows)
    \/ CreateClubAnalysis
    \/ CreateTableAnalysis

SpecAggEnv == InitAgg /\ [][NextAggEnv]_vars

\* The runner, its three stage scripts and the files.
InitRun == PipeIdle /\ ScoreIdle /\ EnvIdle /\ AggIdle /\ RunInit

NextRun == Run \/ RunReturns \/ FileRemoved \/ StageStep

SpecRun == InitRun /\ [][NextRun]_vars

\* One stage script on any input file.
InitStage == PipeIdle /\ ScoreIdle /\ EnvIdle /\ AggIdle /\ StageInit

NextStage == StageStep

SpecStage == InitStage /\ [][NextStage]_vars
====
